---- MODULE Spec2Model ----
(***************************************************************************)
(* Verification model of the genetic-algorithm exercises:                  *)
(*   Tarea2/AlgoritmoGenetico.py        generational GA, binary genomes     *)
(*   Tarea3/OptimizacionDimensionesCaja.py  steady-state GA, binary genomes *)
(*   Tarea4/BarraDeProteina.py          Gaussian mutation, real genomes     *)
(*                                                                         *)
(* Real numbers are modelled exactly, as integers in a stated unit or as   *)
(* numerator/denominator pairs; IEEE-754 rounding is not modelled.         *)
(* random.random() is a draw r from 0..Resolucion-1 standing for           *)
(* r/Resolucion in [0,1); a probability p is the integer p*Resolucion.     *)
(***************************************************************************)
EXTENDS Integers, Sequences, FiniteSets, TLC

VARIABLES
    pc,            \* control position of the running function
    poblacion,     \* the local `poblacion`: a sequence of chromosomes
    generaciones,  \* the parameter `generaciones`
    tamano_poblacion, \* the parameter `tamano_poblacion` / `tamano`
    gen,           \* number of completed iterations of `for gen in range(...)`
    aptitudes,     \* the local `aptitudes` while it is live, <<>> otherwise
    historial,     \* the local `historial` (Tarea2), generation indices only
    idx,           \* position inside a per-individual loop
    resultado,     \* value returned by the function, <<>> before it returns
    entrada,       \* arguments of a single operator call (operator specs)
    llamadas,      \* invocations of the objective function in the generation
                   \* evaluated last
    refs           \* refs[i]: identity of the list object held by slot i of
                   \* poblacion; equal numbers are one shared object

vars == <<pc, poblacion, generaciones, tamano_poblacion, gen, aptitudes,
          historial, idx, resultado, entrada, llamadas, refs>>

(***************************************************************************)
(* Bounds of the model.                                                    *)
(***************************************************************************)
MaxGen == 2        \* generaciones ranges over 0..MaxGen
MaxPob == 4        \* tamano_poblacion ranges over 1..MaxPob (Tarea2)
Resolucion == 100  \* random.random() takes the values r/Resolucion

(***************************************************************************)
(* Generic helpers.                                                        *)
(***************************************************************************)
RECURSIVE Pow2(_)
Pow2(n) == IF n = 0 THEN 1 ELSE 2 * Pow2(n - 1)

Bits == {0, 1}

\* All bit lists of length n.
Cromosomas(n) == [1..n -> Bits]

Abs(x) == IF x < 0 THEN -x ELSE x

\* list[lo:hi] of Python for 0 <= lo <= hi <= len (0-based, hi exclusive).
Slice(s, lo, hi) == [i \in 1..(hi - lo) |-> s[lo + i]]

\* max(range(n), key=f): the first index (1-based here) whose key is maximal.
ArgMaxPrimero(f) ==
    CHOOSE i \in 1..Len(f) :
        /\ \A j \in 1..Len(f) : f[j] <= f[i]
        /\ \A j \in 1..(i - 1) : f[j] < f[i]

\* Mutant of Sorteos: the comparison is `random.random() <= p`.
Sorteos_inclusivo(p) == {r <= p : r \in 0..(Resolucion - 1)}

\* The outcomes of `random.random() < p` over every draw r/Resolucion.
Sorteos(p) == {r < p : r \in 0..(Resolucion - 1)}

(***************************************************************************)
(* Tarea2: codec.                                                          *)
(***************************************************************************)
\* k = 0; for bit in bits: k = (k << 1) | (bit & 1)
RECURSIVE BitsAEntero(_)
BitsAEntero(bits) ==
    IF Len(bits) = 0 THEN 0
    ELSE 2 * BitsAEntero(SubSeq(bits, 1, Len(bits) - 1)) + (bits[Len(bits)] % 2)

\* decodificar(bits, a, b) = a + (k / max_int) * (b - a), returned as the
\* numerator over the denominator max_int = (1 << len(bits)) - 1.
decodificar(bits, a, b) ==
    LET max_int == Pow2(Len(bits)) - 1
        k == BitsAEntero(bits)
    IN  a * max_int + k * (b - a)

(***************************************************************************)
(* Tarea2: parameters of algoritmo_genetico, instantiated.  Bounds are in  *)
(* halves (b_x = 3 is 1.5), which makes cos(2*pi*x) exact on the grid.     *)
(***************************************************************************)
n_bits == 1
a_x == 0
b_x == 3
a_y == 0
b_y == 5
probabilidad_cruce == 70
probabilidad_mutacion == 1
tamano_torneo == 3

\* math.cos(2*pi*x) for x = xn/(2*den): defined on the half-integer grid,
\* where it is exactly 1 (x integer) or -1 (x integer + 1/2).
CosDosPi(xn, den) ==
    CASE xn % (2 * den) = 0 -> 1
      [] xn % (2 * den) = den -> -1

\* f_objetivo(x, y) = 20 + x**2 + y**2 - cos(2 pi x) + cos(2 pi y), for
\* x = xn/(2*den), y = yn/(2*den); the value returned is f * 4 * den^2.
f_objetivo(xn, yn, den) ==
    80 * den * den + xn * xn + yn * yn
        - 4 * den * den * CosDosPi(xn, den) + 4 * den * den * CosDosPi(yn, den)

\* aptitud(x, y) = -f_objetivo(x, y)
aptitud(xn, yn, den) == -f_objetivo(xn, yn, den)

AptitudIndividuo(individuo) ==
    LET bits_x == Slice(individuo, 0, n_bits)
        bits_y == Slice(individuo, n_bits, 2 * n_bits)
    IN  aptitud(decodificar(bits_x, a_x, b_x), decodificar(bits_y, a_y, b_y),
                Pow2(n_bits) - 1)

evaluar_poblacion(pob) == [i \in 1..Len(pob) |-> AptitudIndividuo(pob[i])]

\* Invocations of the objective function made by one call of evaluar_poblacion
\* (of either program): one per iteration of its loop over the population.
LlamadasEvaluar(pob) == Len(pob)

(***************************************************************************)
(* Tarea2: operators.                                                      *)
(***************************************************************************)
\* Mutant of TorneoGanador: ties go to the index drawn last.
TorneoGanador_ultimo(indices, apt) ==
    indices[CHOOSE j \in 1..Len(indices) :
                /\ \A l \in 1..Len(indices) : apt[indices[l]] <= apt[indices[j]]
                /\ \A l \in (j + 1)..Len(indices) : apt[indices[l]] < apt[indices[j]]]

\* max(indices, key=lambda i: aptitudes[i]): first drawn index of maximal key.
TorneoGanador(indices, apt) ==
    indices[ArgMaxPrimero([j \in 1..Len(indices) |-> apt[indices[j]]])]

\* The indices one tournament can return, over every draw of the k indices.
GanadoresPosibles(n, apt) ==
    {TorneoGanador(ind, apt) : ind \in [1..tamano_torneo -> 1..n]}

\* seleccion_torneo given the winner of each of the n tournaments.
seleccion_torneo(pob, ganadores) == [s \in 1..Len(pob) |-> pob[ganadores[s]]]

\* Mutant of cruce_un_punto: the second child takes its tail from padre2 too.
cruce_un_punto_cola(padre1, padre2, cruza, punto) ==
    IF ~cruza THEN <<padre1, padre2>>
    ELSE LET n == Len(padre1)
         IN  << Slice(padre1, 0, punto) \o Slice(padre2, punto, n),
                Slice(padre2, 0, punto) \o Slice(padre2, punto, n) >>

\* cruce_un_punto: `cruza` is the outcome of random.random() < probabilidad_cruce,
\* punto the value of random.randint(1, n - 1).
cruce_un_punto(padre1, padre2, cruza, punto) ==
    IF ~cruza THEN <<padre1, padre2>>
    ELSE LET n == Len(padre1)
         IN  << Slice(padre1, 0, punto) \o Slice(padre2, punto, n),
                Slice(padre2, 0, punto) \o Slice(padre1, punto, n) >>

\* Mutant of aplicar_cruce_poblacion: the odd individual out is dropped.
aplicar_cruce_poblacion_sin_impar(pob, cruza, punto) ==
    LET pares == Len(pob) \div 2
        hijos(p) == cruce_un_punto(pob[2 * p - 1], pob[2 * p], cruza[p], punto[p])
    IN  [i \in 1..(2 * pares) |-> hijos((i + 1) \div 2)[2 - (i % 2)]]

\* aplicar_cruce_poblacion: pairs (0,1), (2,3), ...; an odd last one is copied.
\* cruza[p], punto[p] are the draws of pair p.
aplicar_cruce_poblacion(pob, cruza, punto) ==
    LET n == Len(pob)
        pares == n \div 2
        hijos(p) == cruce_un_punto(pob[2 * p - 1], pob[2 * p], cruza[p], punto[p])
        nueva == [i \in 1..(2 * pares) |-> hijos((i + 1) \div 2)[2 - (i % 2)]]
    IN  IF n % 2 = 1 THEN Append(nueva, pob[n]) ELSE nueva

\* mutar_cromosoma: invertir[i] is the outcome of random.random() < p at bit i.
mutar_cromosoma(cromosoma, invertir) ==
    [i \in 1..Len(cromosoma) |->
        IF invertir[i] THEN 1 - cromosoma[i] ELSE cromosoma[i]]

(***************************************************************************)
(* Identity of list objects.  An object is a natural number; the lists of  *)
(* these programs are never modified after they are built, so an object's  *)
(* contents are those of the slot that holds it.                           *)
(***************************************************************************)
Rango(s) == {s[i] : i \in DOMAIN s}

MaxRef(usadas) ==
    IF usadas = {} THEN 0 ELSE CHOOSE m \in usadas : \A x \in usadas : x <= m

\* The j-th list object created while the objects of `usadas` exist.
Nueva(usadas, j) == MaxRef(usadas) + j

\* Objects renumbered in order of first appearance: which slots share an
\* object is kept, the numbers themselves carry no meaning.  Slots that share
\* nothing are numbered 1..n.
Normalizar(r) ==
    IF Cardinality(Rango(r)) = Len(r) THEN [i \in 1..Len(r) |-> i]
    ELSE LET primera(i) == CHOOSE j \in 1..i :
                              r[j] = r[i] /\ \A l \in 1..(j - 1) : r[l] # r[i]
         IN  [i \in 1..Len(r) |-> Cardinality({r[l] : l \in 1..primera(i)})]

\* Mutant of seleccion_torneo_refs: the winner itself is appended, without [:].
seleccion_torneo_refs_sin_copia(r, ganadores) ==
    [s \in 1..Len(r) |-> r[ganadores[s]]]

\* seleccion_torneo, line 148: poblacion[mejor_indice][:] is a new list for
\* every entry of the pool.
seleccion_torneo_refs(r, ganadores) ==
    [s \in 1..Len(r) |-> Nueva(Rango(r), s)]

\* cruce_un_punto: the no-crossover branch (line 163) returns the parents
\* themselves; the slices concatenated in lines 166-167 are new lists.
cruce_un_punto_refs(ref1, ref2, cruza, nueva1, nueva2) ==
    IF ~cruza THEN <<ref1, ref2>> ELSE <<nueva1, nueva2>>

\* aplicar_cruce_poblacion: the odd individual out is copied (line 184).
aplicar_cruce_poblacion_refs(r, cruza) ==
    LET n == Len(r)
        pares == n \div 2
        hijos(p) == cruce_un_punto_refs(r[2 * p - 1], r[2 * p], cruza[p],
                                        Nueva(Rango(r), 2 * p - 1),
                                        Nueva(Rango(r), 2 * p))
        nueva == [i \in 1..(2 * pares) |-> hijos((i + 1) \div 2)[2 - (i % 2)]]
    IN  IF n % 2 = 1 THEN Append(nueva, Nueva(Rango(r), n)) ELSE nueva

\* mutar_cromosoma (of either program) returns the list it builds.
mutar_cromosoma_refs(r, i) == [r EXCEPT ![i] = Nueva(Rango(r), 1)]

(***************************************************************************)
(* Tarea2: algoritmo_genetico as a state machine.                          *)
(***************************************************************************)
InitAG ==
    /\ pc = "bucle"
    /\ generaciones \in 0..MaxGen
    /\ tamano_poblacion \in 1..MaxPob
    /\ poblacion \in [1..tamano_poblacion -> Cromosomas(2 * n_bits)]
    /\ gen = 0
    /\ aptitudes = <<>>
    /\ historial = <<>>
    /\ idx = 0
    /\ resultado = <<>>
    /\ llamadas = 0
    /\ refs = [i \in 1..tamano_poblacion |-> i]
    /\ entrada = <<>>

\* Mutant of AG_Evaluar: the loop test is off by one (range(generaciones + 1)).
AG_Evaluar_uno_mas ==
    /\ pc = "bucle"
    /\ gen <= generaciones
    /\ aptitudes' = evaluar_poblacion(poblacion)
    /\ llamadas' = LlamadasEvaluar(poblacion) + 1
    /\ historial' = Append(historial, [generacion |-> gen + 1])
    /\ pc' = "seleccion"
    /\ UNCHANGED <<poblacion, generaciones, tamano_poblacion, gen, idx, resultado,
                   entrada, refs>>

\* Lines 290-323: evaluate and append the generation record.  f_objetivo is
\* invoked by evaluar_poblacion (line 292) and once more for f_gen (line 304).
AG_Evaluar ==
    /\ pc = "bucle"
    /\ gen < generaciones
    /\ aptitudes' = evaluar_poblacion(poblacion)
    /\ llamadas' = LlamadasEvaluar(poblacion) + 1
    /\ historial' = Append(historial, [generacion |-> gen + 1])
    /\ pc' = "seleccion"
    /\ UNCHANGED <<poblacion, generaciones, tamano_poblacion, gen, idx, resultado,
                   entrada, refs>>

\* Line 326.
AG_Seleccion ==
    /\ pc = "seleccion"
    /\ \E ganadores \in [1..Len(poblacion) ->
                            GanadoresPosibles(Len(poblacion), aptitudes)] :
           /\ poblacion' = seleccion_torneo(poblacion, ganadores)
           /\ refs' = Normalizar(seleccion_torneo_refs(refs, ganadores))
    /\ aptitudes' = <<>>
    /\ pc' = "cruce"
    /\ UNCHANGED <<generaciones, tamano_poblacion, gen, historial, idx, resultado,
                   entrada, llamadas>>

\* Line 327.
AG_Cruce ==
    /\ pc = "cruce"
    /\ LET pares == Len(poblacion) \div 2
       IN  \E cruza \in [1..pares -> Sorteos(probabilidad_cruce)],
              punto \in [1..pares -> 1..(2 * n_bits - 1)] :
               /\ poblacion' = aplicar_cruce_poblacion(poblacion, cruza, punto)
               /\ refs' = Normalizar(aplicar_cruce_poblacion_refs(refs, cruza))
    /\ pc' = "mutacion"
    /\ idx' = 0
    /\ UNCHANGED <<generaciones, tamano_poblacion, gen, aptitudes, historial,
                   resultado, entrada, llamadas>>

\* Line 328, one individual of the list comprehension per step; slots
\* 1..idx of poblacion hold the mutated chromosomes built so far.
AG_Mutar ==
    /\ pc = "mutacion"
    /\ idx < Len(poblacion)
    /\ \E invertir \in [1..(2 * n_bits) -> Sorteos(probabilidad_mutacion)] :
           poblacion' = [poblacion EXCEPT
                            ![idx + 1] = mutar_cromosoma(@, invertir)]
    /\ refs' = Normalizar(mutar_cromosoma_refs(refs, idx + 1))
    /\ IF idx + 1 = Len(poblacion)
       THEN /\ pc' = "bucle"
            /\ gen' = gen + 1
            /\ idx' = 0
       ELSE /\ pc' = "mutacion"
            /\ gen' = gen
            /\ idx' = idx + 1
    /\ UNCHANGED <<generaciones, tamano_poblacion, aptitudes, historial, resultado,
                   entrada, llamadas>>

\* Mutant of MejorFinal: the individual of lowest fitness is reported.
MejorFinal_minimo(pob, aptitudes_finales) ==
    LET mejor_indice ==
            ArgMaxPrimero([i \in 1..Len(pob) |-> -aptitudes_finales[i]])
        mejor_cromosoma == pob[mejor_indice]
        mejor_x == decodificar(Slice(mejor_cromosoma, 0, n_bits), a_x, b_x)
        mejor_y == decodificar(Slice(mejor_cromosoma, n_bits, 2 * n_bits), a_y, b_y)
    IN  [mejor_cromosoma |-> mejor_cromosoma,
         mejor_x |-> mejor_x,
         mejor_y |-> mejor_y,
         mejor_f |-> f_objetivo(mejor_x, mejor_y, Pow2(n_bits) - 1)]

\* Lines 332-339 and 358: the result, given aptitudes_finales (line 331).
MejorFinal(pob, aptitudes_finales) ==
    LET mejor_indice == ArgMaxPrimero(aptitudes_finales)
        mejor_cromosoma == pob[mejor_indice]
        mejor_x == decodificar(Slice(mejor_cromosoma, 0, n_bits), a_x, b_x)
        mejor_y == decodificar(Slice(mejor_cromosoma, n_bits, 2 * n_bits), a_y, b_y)
    IN  [mejor_cromosoma |-> mejor_cromosoma,
         mejor_x |-> mejor_x,
         mejor_y |-> mejor_y,
         mejor_f |-> f_objetivo(mejor_x, mejor_y, Pow2(n_bits) - 1)]

\* Mutant of AG_Final: a convergence test leaves the loop after one generation.
AG_Final_temprano ==
    /\ pc = "bucle"
    /\ (gen >= generaciones \/ gen >= 1)
    /\ \E aptitudes_finales \in {evaluar_poblacion(poblacion)} :
           resultado' = MejorFinal(poblacion, aptitudes_finales)
    /\ pc' = "done"
    /\ UNCHANGED <<poblacion, generaciones, tamano_poblacion, gen, aptitudes,
                   historial, idx, entrada, llamadas, refs>>

AG_Final ==
    /\ pc = "bucle"
    /\ gen >= generaciones
    /\ \E aptitudes_finales \in {evaluar_poblacion(poblacion)} :
           resultado' = MejorFinal(poblacion, aptitudes_finales)
    /\ pc' = "done"
    /\ UNCHANGED <<poblacion, generaciones, tamano_poblacion, gen, aptitudes,
                   historial, idx, entrada, llamadas, refs>>

NextAG == AG_Evaluar \/ AG_Seleccion \/ AG_Cruce \/ AG_Mutar \/ AG_Final

SpecAG == InitAG /\ [][NextAG]_vars

(***************************************************************************)
(* Claims about algoritmo_genetico.                                        *)
(***************************************************************************)
\* C2: at every point of a run of algoritmo_genetico the population holds
\* exactly tamano_poblacion chromosomes, each of exactly 2*n_bits genes, each
\* gene 0 or 1 (for even and odd population sizes alike).
C2_PoblacionBienFormada ==
    /\ Len(poblacion) = tamano_poblacion
    /\ \A i \in 1..Len(poblacion) :
           /\ Len(poblacion[i]) = 2 * n_bits
           /\ \A g \in 1..(2 * n_bits) : poblacion[i][g] \in {0, 1}
    /\ DOMAIN poblacion = 1..tamano_poblacion

\* Two full generations have run on an odd population that has a pair and an
\* odd individual out.
C2_Witness ==
    /\ pc = "done"
    /\ gen = 2
    /\ tamano_poblacion = 3
    /\ Len(poblacion) = 3

\* Steps that remain before DONE: a natural number bounded by the generation
\* budget and the population size alone.
AG_Medida ==
    IF pc = "done" THEN 0
    ELSE 1 + (generaciones - gen) * (tamano_poblacion + 4)
           + (CASE pc = "bucle" -> tamano_poblacion + 3
                [] pc = "seleccion" -> tamano_poblacion + 2
                [] pc = "cruce" -> tamano_poblacion + 1
                [] pc = "mutacion" -> tamano_poblacion - idx)

\* C3: a run always reaches DONE (a step is possible in every state but DONE,
\* and every step strictly lowers a natural-number measure that does not
\* depend on fitness), and in DONE it has performed exactly `generaciones`
\* iterations and emitted exactly one record per iteration, with generation
\* indices 1, 2, ..., generaciones in that order.
C3_TerminaTrasGGeneraciones ==
    /\ [](pc = "done" =>
            /\ gen = generaciones
            /\ historial = [i \in 1..generaciones |-> [generacion |-> i]])
    /\ [](pc # "done" => ENABLED NextAG)
    /\ [](AG_Medida >= 0)
    /\ [][AG_Medida' < AG_Medida]_vars

C3_Witness ==
    /\ pc = "done"
    /\ generaciones = 2
    /\ Len(historial) = 2
    /\ historial[2].generacion = 2

\* C4: the result is taken from the final population: the returned chromosome
\* is the member of lowest index among those whose fitness is >= that of every
\* member, x and y are the decodings of its two halves, and the returned
\* objective value is f_objetivo(x, y), the negation of its fitness.
C4_ResultadoEsElMejorFinal ==
    pc = "done" =>
        \E i \in 1..Len(poblacion) :
            /\ resultado.mejor_cromosoma = poblacion[i]
            /\ \A j \in 1..Len(poblacion) :
                   AptitudIndividuo(poblacion[j]) <= AptitudIndividuo(poblacion[i])
            /\ \A j \in 1..(i - 1) :
                   AptitudIndividuo(poblacion[j]) < AptitudIndividuo(poblacion[i])
            /\ resultado.mejor_x =
                   decodificar(Slice(poblacion[i], 0, n_bits), a_x, b_x)
            /\ resultado.mejor_y =
                   decodificar(Slice(poblacion[i], n_bits, 2 * n_bits), a_y, b_y)
            /\ resultado.mejor_f =
                   f_objetivo(resultado.mejor_x, resultado.mejor_y, Pow2(n_bits) - 1)
            /\ resultado.mejor_f = -AptitudIndividuo(poblacion[i])

\* A finished run whose final population has members of different fitness and
\* a tie for the best between two different chromosomes.
C4_Witness ==
    /\ pc = "done"
    /\ gen = 2
    /\ \E i, j, k \in 1..Len(poblacion) :
           /\ i < j
           /\ poblacion[i] # poblacion[j]
           /\ AptitudIndividuo(poblacion[i]) = AptitudIndividuo(poblacion[j])
           /\ AptitudIndividuo(poblacion[k]) < AptitudIndividuo(poblacion[i])
           /\ resultado.mejor_cromosoma = poblacion[i]

\* C5: every step of a run with generaciones = 0 is the final step taken from
\* the initial state: no record exists or is emitted, the population is left
\* as initialised, and the result is its member of highest fitness.
C5_CeroGeneraciones ==
    [][generaciones = 0 =>
          /\ pc = "bucle" /\ gen = 0 /\ historial = <<>>
          /\ pc' = "done" /\ gen' = 0 /\ historial' = <<>>
          /\ poblacion' = poblacion
          /\ \E i \in 1..Len(poblacion) :
                 /\ resultado'.mejor_cromosoma = poblacion[i]
                 /\ \A j \in 1..Len(poblacion) :
                        AptitudIndividuo(poblacion[j]) <= AptitudIndividuo(poblacion[i])
      ]_vars

C5_Witness ==
    /\ pc = "done"
    /\ generaciones = 0
    /\ gen = 0
    /\ Len(poblacion) = 3
    /\ resultado.mejor_cromosoma = poblacion[2]
    /\ poblacion[1] # poblacion[2]

(***************************************************************************)
(* Tarea3: box-volume fitness.  bits_por_var is instantiated at 1, so a    *)
(* chromosome has len(RANGOS) * 1 = 3 bits; decoded values are numerators  *)
(* over max_int and the volume is scaled by max_int^3.                     *)
(***************************************************************************)
MaxPobEvo == 5     \* population sizes 0..MaxPobEvo in evolucionar
MaxGenEvo == 1     \* generaciones ranges over 0..MaxGenEvo in evolucionar

L_MIN == 10
L_MAX == 50
W_MIN == 10
W_MAX == 50
H_MIN == 5
H_MAX == 30
RANGOS == << <<L_MIN, L_MAX>>, <<W_MIN, W_MAX>>, <<H_MIN, H_MAX>> >>
bits_por_var == 1
p_mut == 5

\* A call either raises ValueError or returns a value.
ValueError == [ok |-> FALSE]
Devuelve(v) == [ok |-> TRUE, val |-> v]

RECURSIVE Suma(_)
Suma(s) == IF Len(s) = 0 THEN 0 ELSE s[1] + Suma(Tail(s))

\* sorted(range(n), key=claves[i], reverse=True): stable, so equal keys keep
\* their index order.
OrdenDescendente(claves) ==
    LET n == Len(claves)
        rango(i) == Cardinality({j \in 1..n : claves[j] > claves[i]})
                    + Cardinality({j \in 1..(i - 1) : claves[j] = claves[i]}) + 1
    IN  [r \in 1..n |-> CHOOSE i \in 1..n : rango(i) = r]

\* sorted(range(n), key=claves[i]): stable ascending order.
OrdenAscendente(claves) ==
    LET n == Len(claves)
        rango(i) == Cardinality({j \in 1..n : claves[j] < claves[i]})
                    + Cardinality({j \in 1..(i - 1) : claves[j] = claves[i]}) + 1
    IN  [r \in 1..n |-> CHOOSE i \in 1..n : rango(i) = r]

decodificar_individuo(cromosoma) ==
    IF Len(cromosoma) # Len(RANGOS) * bits_por_var THEN ValueError
    ELSE Devuelve([i \in 1..Len(RANGOS) |->
            decodificar(Slice(cromosoma, (i - 1) * bits_por_var, i * bits_por_var),
                        RANGOS[i][1], RANGOS[i][2])])

volumen_caja(length, width, height) == length * width * height

aptitud_caja(cromosoma) ==
    LET v == decodificar_individuo(cromosoma).val
    IN  volumen_caja(v[1], v[2], v[3])

evaluar_poblacion_caja(pob) == [i \in 1..Len(pob) |-> aptitud_caja(pob[i])]

\* probabilidades_seleccion: the probabilities as numerators over one positive
\* denominator (the total fitness, or n when the total is not positive).
probabilidades_seleccion(apt) ==
    IF Len(apt) = 0 THEN ValueError
    ELSE LET total_aptitud == Suma(apt)
         IN  IF total_aptitud <= 0
             THEN Devuelve([num |-> [i \in 1..Len(apt) |-> 1], den |-> Len(apt)])
             ELSE Devuelve([num |-> apt, den |-> total_aptitud])

\* Mutant of indices_mejores: a non-positive k is not rejected.
indices_mejores_sin_positivo(probabilidades, k) ==
    IF k > Len(probabilidades.num) THEN ValueError
    ELSE Devuelve(SubSeq(OrdenDescendente(probabilidades.num), 1, k))

indices_mejores(probabilidades, k) ==
    IF k <= 0 THEN ValueError
    ELSE IF k > Len(probabilidades.num) THEN ValueError
    ELSE Devuelve(SubSeq(OrdenDescendente(probabilidades.num), 1, k))

seleccionar_mejores(pob, probabilidades, k) ==
    LET ind == indices_mejores(probabilidades, k)
    IN  IF ~ind.ok THEN ValueError
        ELSE Devuelve([i \in 1..Len(ind.val) |-> pob[ind.val[i]]])

\* Tarea3's cruce_un_punto: it always recombines; punto is random.randint(1, n-1).
cruce_un_punto_caja(padre1, padre2, punto) ==
    IF Len(padre1) # Len(padre2) THEN ValueError
    ELSE IF Len(padre1) < 2 THEN Devuelve(<<padre1, padre2>>)
    ELSE LET n == Len(padre1)
         IN  Devuelve(<< Slice(padre1, 0, punto) \o Slice(padre2, punto, n),
                         Slice(padre2, 0, punto) \o Slice(padre1, punto, n) >>)

\* Tarea3's mutar_cromosoma: the probability is checked first.
mutar_cromosoma_caja(cromosoma, p, invertir) ==
    IF ~(0 <= p /\ p <= Resolucion) THEN ValueError
    ELSE Devuelve([i \in 1..Len(cromosoma) |->
            IF invertir[i] THEN 1 - cromosoma[i] ELSE cromosoma[i]])

\* Lines 344-346: every pair of offspring the draws can produce.
HijosPosibles(padre1, padre2, p) ==
    LET n == Len(padre1)
        mascaras == [1..n -> Sorteos(p)]
    IN  UNION {
          LET h == cruce_un_punto_caja(padre1, padre2, punto).val
          IN  {<<mutar_cromosoma_caja(h[1], p, m1).val,
                 mutar_cromosoma_caja(h[2], p, m2).val>> : m1 \in mascaras, m2 \in mascaras}
          : punto \in 1..(n - 1) }

\* Mutant of Peores: the sort is reversed, so the two best are picked.
Peores_invertido(apt) == SubSeq(OrdenDescendente(apt), 1, 2)

\* Line 349: sorted(range(len(aptitudes)), key=lambda i: aptitudes[i])[:2]
Peores(apt) == SubSeq(OrdenAscendente(apt), 1, 2)

\* Mutant of Reemplazar: the second child is appended, not written over a slot.
Reemplazar_anexar(pob, peores, hijo1, hijo2) ==
    Append([pob EXCEPT ![peores[1]] = hijo1], hijo2)

\* Lines 352-353: the two assignments, in order.
Reemplazar(pob, peores, hijo1, hijo2) ==
    [[pob EXCEPT ![peores[1]] = hijo1] EXCEPT ![peores[2]] = hijo2]

(***************************************************************************)
(* Tarea3: evolucionar as a state machine, one generation per step.        *)
(***************************************************************************)
InitEvo ==
    /\ pc = "bucle"
    /\ generaciones \in 0..MaxGenEvo
    /\ tamano_poblacion \in 0..MaxPobEvo
    /\ poblacion \in [1..tamano_poblacion -> Cromosomas(Len(RANGOS) * bits_por_var)]
    /\ gen = 0
    /\ aptitudes = <<>>
    /\ historial = <<>>
    /\ idx = 0
    /\ resultado = <<>>
    /\ llamadas = 0
    /\ refs = [i \in 1..tamano_poblacion |-> i]
    /\ entrada = <<>>

\* Lines 336-340 raise: no fitness to normalise, or fewer than 2 individuals.
Evo_Error ==
    /\ pc = "bucle"
    /\ gen < generaciones
    /\ LET probs == probabilidades_seleccion(evaluar_poblacion_caja(poblacion))
       IN  IF ~probs.ok THEN TRUE
           ELSE ~seleccionar_mejores(poblacion, probs.val, 2).ok
    /\ pc' = "error"
    /\ resultado' = ValueError
    /\ llamadas' = LlamadasEvaluar(poblacion)
    /\ UNCHANGED <<poblacion, generaciones, tamano_poblacion, gen, aptitudes,
                   historial, idx, entrada, refs>>

\* Lines 336-353: one full generation.
Evo_Generacion ==
    /\ pc = "bucle"
    /\ gen < generaciones
    /\ Len(poblacion) >= 2
    /\ \E apt \in {evaluar_poblacion_caja(poblacion)} :
         \E mejores \in {seleccionar_mejores(poblacion,
                                probabilidades_seleccion(apt).val, 2).val} :
           \E peores \in {Peores(apt)} :
             /\ refs' = Normalizar(Reemplazar(refs, peores,
                                              Nueva(Rango(refs), 1),
                                              Nueva(Rango(refs), 2)))
             /\ \E hijos \in HijosPosibles(mejores[1], mejores[2], p_mut) :
                  poblacion' = Reemplazar(poblacion, peores, hijos[1], hijos[2])
    /\ gen' = gen + 1
    /\ llamadas' = LlamadasEvaluar(poblacion)
    /\ UNCHANGED <<pc, generaciones, tamano_poblacion, aptitudes, historial, idx,
                   resultado, entrada>>

\* Line 358.
Evo_Return ==
    /\ pc = "bucle"
    /\ gen >= generaciones
    /\ pc' = "done"
    /\ resultado' = poblacion
    /\ UNCHANGED <<poblacion, generaciones, tamano_poblacion, gen, aptitudes,
                   historial, idx, entrada, llamadas, refs>>

NextEvo == Evo_Error \/ Evo_Generacion \/ Evo_Return

SpecEvo == InitEvo /\ [][NextEvo]_vars

(***************************************************************************)
(* Claims about evolucionar.                                               *)
(***************************************************************************)
\* The fitness of every chromosome, tabulated once from aptitud_caja.
TablaAptitud ==
    [c \in {x : x \in Cromosomas(Len(RANGOS) * bits_por_var)} |-> aptitud_caja(c)]

\* The best fitness of pob2 is not lower than the best fitness of pob1.
MejorNoBaja(pob1, pob2) ==
    \A i \in 1..Len(pob1) :
        \E j \in 1..Len(pob2) : TablaAptitud[pob2[j]] >= TablaAptitud[pob1[i]]

\* C1: in evolucionar, for a population of more than 4 individuals, the
\* maximum fitness after a generation is never lower than before it, whatever
\* crossover point is drawn and whatever bits mutation flips; this holds in
\* particular when the best and the worst fitness are not tied, and, holding at
\* every step, it makes the best fitness non-decreasing over any number of
\* generations.
C1_MejorAptitudNoDecrece ==
    [][(pc = "bucle" /\ Len(poblacion) > 4)
          => MejorNoBaja(poblacion, poblacion')]_vars

\* A generation has run on a population of 5 and left one whose best and
\* worst fitness differ.
C1_Witness ==
    /\ pc = "bucle"
    /\ gen = 1
    /\ Len(poblacion) = 5
    /\ \E i, j \in 1..5 : TablaAptitud[poblacion[i]] < TablaAptitud[poblacion[j]]

(***************************************************************************)
(* The crossover operators called on their own.                            *)
(* entrada = [tarea, padre1, padre2]; resultado records the value returned *)
(* together with the draws that produced it.                               *)
(***************************************************************************)
MaxLen == 4        \* chromosomes of the operator calls have 1..MaxLen bits

CromosomasHasta(n) == UNION {Cromosomas(k) : k \in 1..n}

InitCruce ==
    /\ pc = "cruce"
    /\ entrada \in [tarea : {2, 3},
                    padre1 : CromosomasHasta(MaxLen),
                    padre2 : CromosomasHasta(MaxLen)]
    /\ resultado = <<>>
    /\ llamadas = 0
    /\ refs = <<>>
    /\ poblacion = <<>>
    /\ generaciones = 0
    /\ tamano_poblacion = 0
    /\ gen = 0
    /\ aptitudes = <<>>
    /\ historial = <<>>
    /\ idx = 0

\* The list objects handed to cruce_un_punto as padre1 and padre2.
PadresCruce == <<1, 2>>

\* Tarea3 cruce_un_punto: padre1[:], padre2[:] (line 258) and the
\* concatenated slices (lines 262-263) are all new lists.
cruce_un_punto_caja_refs(ref1, ref2, nueva1, nueva2) == <<nueva1, nueva2>>

\* Both programs raise ValueError on parents of different length; in Tarea2
\* random.randint(1, n - 1) raises ValueError when a crossover is drawn on
\* parents of one bit.
Cruce_Error ==
    /\ pc = "cruce"
    /\ \/ Len(entrada.padre1) # Len(entrada.padre2)
       \/ /\ entrada.tarea = 2
          /\ Len(entrada.padre1) < 2
          /\ TRUE \in Sorteos(probabilidad_cruce)
    /\ pc' = "error"
    /\ resultado' = ValueError
    /\ UNCHANGED <<poblacion, generaciones, tamano_poblacion, gen, aptitudes,
                   historial, idx, entrada, llamadas, refs>>

\* Tarea2, cruce_un_punto(padre1, padre2, probabilidad_cruce).
Cruce_Tarea2 ==
    /\ pc = "cruce"
    /\ entrada.tarea = 2
    /\ Len(entrada.padre1) = Len(entrada.padre2)
    /\ \E cruza \in Sorteos(probabilidad_cruce) :
         /\ cruza => Len(entrada.padre1) >= 2
         /\ \E punto \in IF cruza THEN 1..(Len(entrada.padre1) - 1) ELSE {0} :
              resultado' = [ok |-> TRUE,
                            val |-> cruce_un_punto(entrada.padre1, entrada.padre2,
                                                   cruza, punto),
                            cruza |-> cruza,
                            punto |-> punto,
                            refs |-> cruce_un_punto_refs(
                                        PadresCruce[1], PadresCruce[2], cruza,
                                        Nueva(Rango(PadresCruce), 1),
                                        Nueva(Rango(PadresCruce), 2))]
    /\ pc' = "done"
    /\ UNCHANGED <<poblacion, generaciones, tamano_poblacion, gen, aptitudes,
                   historial, idx, entrada, llamadas, refs>>

\* Tarea3, cruce_un_punto(padre1, padre2): parents of one bit are copied,
\* longer ones are always recombined.
Cruce_Tarea3 ==
    /\ pc = "cruce"
    /\ entrada.tarea = 3
    /\ Len(entrada.padre1) = Len(entrada.padre2)
    /\ \E punto \in IF Len(entrada.padre1) >= 2
                    THEN 1..(Len(entrada.padre1) - 1) ELSE {0} :
         resultado' = [ok |-> TRUE,
                       val |-> cruce_un_punto_caja(entrada.padre1, entrada.padre2,
                                                   punto).val,
                       cruza |-> Len(entrada.padre1) >= 2,
                       punto |-> punto,
                       refs |-> cruce_un_punto_caja_refs(
                                   PadresCruce[1], PadresCruce[2],
                                   Nueva(Rango(PadresCruce), 1),
                                   Nueva(Rango(PadresCruce), 2))]
    /\ pc' = "done"
    /\ UNCHANGED <<poblacion, generaciones, tamano_poblacion, gen, aptitudes,
                   historial, idx, entrada, llamadas, refs>>

NextCruce == Cruce_Error \/ Cruce_Tarea2 \/ Cruce_Tarea3

SpecCruce == InitCruce /\ [][NextCruce]_vars

\* C6: whenever cruce_un_punto (of either program) recombines equal-length
\* parents A and B of at least 2 bits at point p, p lies in 1..len-1, childA is
\* A[0:p] + B[p:] and childB is B[0:p] + A[p:]; both children have the length
\* of A, and at every position the pair of child bits is the pair of parent
\* bits; [0,0,0,0] x [1,1,1,1] at p = 2 gives [0,0,1,1] and [1,1,0,0].
C6_CruceUnPunto ==
    (pc = "done" /\ resultado.cruza) =>
        LET A == entrada.padre1
            B == entrada.padre2
            p == resultado.punto
            childA == resultado.val[1]
            childB == resultado.val[2]
        IN  /\ Len(A) >= 2
            /\ p \in 1..(Len(A) - 1)
            /\ childA = [i \in 1..Len(A) |-> IF i <= p THEN A[i] ELSE B[i]]
            /\ childB = [i \in 1..Len(A) |-> IF i <= p THEN B[i] ELSE A[i]]
            /\ Len(childA) = Len(A)
            /\ Len(childB) = Len(A)
            /\ \A i \in 1..Len(A) : {childA[i], childB[i]} = {A[i], B[i]}
            /\ (A = <<0, 0, 0, 0>> /\ B = <<1, 1, 1, 1>> /\ p = 2)
                   => (childA = <<0, 0, 1, 1>> /\ childB = <<1, 1, 0, 0>>)

\* Tarea2's operator has recombined [0,0,0,0] and [1,1,1,1] at point 2.
C6_Witness ==
    /\ pc = "done"
    /\ entrada.tarea = 2
    /\ entrada.padre1 = <<0, 0, 0, 0>>
    /\ entrada.padre2 = <<1, 1, 1, 1>>
    /\ resultado.cruza
    /\ resultado.punto = 2
    /\ resultado.val = << <<0, 0, 1, 1>>, <<1, 1, 0, 0>> >>

(***************************************************************************)
(* Tarea4: Gaussian mutation of real-valued individuals.  Genes are whole  *)
(* grams; random.gauss(0, sigma) ranges over Perturbaciones.               *)
(***************************************************************************)
LIMITES == << <<10, 50>>, <<20, 100>>, <<5, 30>>, <<0, 20>> >>

\* Perturbations within a gene's range and beyond the widest range, of both signs.
Perturbaciones == {-200, -20, 20, 200}

Min(a, b) == IF a <= b THEN a ELSE b
Max(a, b) == IF a >= b THEN a ELSE b

\* Mutant of recortar: the upper limit is not enforced.
recortar_sin_maximo(valor, minimo, maximo) == Max(minimo, valor)

\* recortar: max(minimo, min(maximo, valor))
recortar(valor, minimo, maximo) == Max(minimo, Min(maximo, valor))

\* The values one gene can take in mutar_individuo_real, over the outcome of
\* random.random() < probabilidad_mutacion and the perturbation drawn.
GenMutado(valor, i, p) ==
    {IF muta THEN recortar(valor + perturbacion, LIMITES[i][1], LIMITES[i][2])
             ELSE valor :
        muta \in Sorteos(p), perturbacion \in Perturbaciones}

RECURSIVE MutadosDesde(_, _, _)
MutadosDesde(individuo, p, i) ==
    IF i > Len(individuo) THEN {<<>>}
    ELSE {<<g>> \o resto : g \in GenMutado(individuo[i], i, p),
                           resto \in MutadosDesde(individuo, p, i + 1)}

\* mutar_individuo_real: every individual it can return, gene by gene.  The
\* probability is used as given: the function does not check its range.
mutar_individuo_real(individuo, p) == MutadosDesde(individuo, p, 1)

\* individuo_aleatorio: random.uniform(min, max) per gene, sampled at the two
\* ends of each range.
RECURSIVE IndividuosDesde(_)
IndividuosDesde(i) ==
    IF i > Len(LIMITES) THEN {<<>>}
    ELSE {<<g>> \o resto : g \in {LIMITES[i][1], LIMITES[i][2]},
                           resto \in IndividuosDesde(i + 1)}

individuo_aleatorio == IndividuosDesde(1)

(***************************************************************************)
(* The mutation operators called on their own with any probability.        *)
(* entrada = [tarea, cromosoma, p], p in units of 1/Resolucion.            *)
(***************************************************************************)
ProbabilidadesPrueba ==
    {-Resolucion, -1, 0, 1, Resolucion \div 2, Resolucion - 1, Resolucion,
     Resolucion + 1, 2 * Resolucion}

InitMutar ==
    /\ pc = "mutar"
    /\ entrada \in
         [tarea : {2, 3}, cromosoma : CromosomasHasta(MaxLen),
          p : ProbabilidadesPrueba]
         \cup [tarea : {4}, cromosoma : individuo_aleatorio,
               p : ProbabilidadesPrueba]
    /\ resultado = <<>>
    /\ llamadas = 0
    /\ refs = <<>>
    /\ poblacion = <<>>
    /\ generaciones = 0
    /\ tamano_poblacion = 0
    /\ gen = 0
    /\ aptitudes = <<>>
    /\ historial = <<>>
    /\ idx = 0

\* Tarea2, mutar_cromosoma(cromosoma, probabilidad_mutacion): no range check.
Mutar_Tarea2 ==
    /\ pc = "mutar"
    /\ entrada.tarea = 2
    /\ \E invertir \in [1..Len(entrada.cromosoma) -> Sorteos(entrada.p)] :
         resultado' = Devuelve(mutar_cromosoma(entrada.cromosoma, invertir))
    /\ pc' = "done"
    /\ UNCHANGED <<poblacion, generaciones, tamano_poblacion, gen, aptitudes,
                   historial, idx, entrada, llamadas, refs>>

\* Tarea3, mutar_cromosoma(cromosoma, p_mut): ValueError outside [0, 1].
Mutar_Tarea3 ==
    /\ pc = "mutar"
    /\ entrada.tarea = 3
    /\ \E invertir \in [1..Len(entrada.cromosoma) -> Sorteos(entrada.p)] :
         resultado' = mutar_cromosoma_caja(entrada.cromosoma, entrada.p, invertir)
    /\ pc' = IF 0 <= entrada.p /\ entrada.p <= Resolucion THEN "done" ELSE "error"
    /\ UNCHANGED <<poblacion, generaciones, tamano_poblacion, gen, aptitudes,
                   historial, idx, entrada, llamadas, refs>>

\* Tarea4, mutar_individuo_real(individuo, probabilidad_mutacion, sigma).
Mutar_Tarea4 ==
    /\ pc = "mutar"
    /\ entrada.tarea = 4
    /\ \E mutado \in mutar_individuo_real(entrada.cromosoma, entrada.p) :
         resultado' = Devuelve(mutado)
    /\ pc' = "done"
    /\ UNCHANGED <<poblacion, generaciones, tamano_poblacion, gen, aptitudes,
                   historial, idx, entrada, llamadas, refs>>

NextMutar == Mutar_Tarea2 \/ Mutar_Tarea3 \/ Mutar_Tarea4

SpecMutar == InitMutar /\ [][NextMutar]_vars

\* C7: for every bit chromosome c, mutar_cromosoma (of either binary program)
\* with probability 1.0 returns a chromosome of the same length that differs
\* from c at every position, and with probability 0.0 returns a chromosome
\* equal to c, whatever the random draws are.
C7_MutacionExtrema ==
    (pc = "done" /\ entrada.tarea \in {2, 3}) =>
        LET c == entrada.cromosoma
            m == resultado.val
        IN  /\ entrada.p = Resolucion =>
                /\ Len(m) = Len(c)
                /\ \A i \in 1..Len(c) : m[i] # c[i] /\ m[i] = 1 - c[i]
            /\ entrada.p = 0 =>
                /\ Len(m) = Len(c)
                /\ \A i \in 1..Len(c) : m[i] = c[i]

\* Tarea3's operator has returned the complement of a 4-bit chromosome at
\* probability 1.0.
C7_Witness ==
    /\ pc = "done"
    /\ entrada.tarea = 3
    /\ entrada.p = Resolucion
    /\ entrada.cromosoma = <<0, 1, 1, 0>>
    /\ resultado.val = <<1, 0, 0, 1>>

\* C8: every mutation operator (mutar_cromosoma of Tarea2 and of Tarea3,
\* mutar_individuo_real of Tarea4) called with a probability below 0 or above 1
\* fails with an error and returns no chromosome.
C8_ProbabilidadFueraDeRango ==
    (pc # "mutar" /\ (entrada.p < 0 \/ entrada.p > Resolucion)) =>
        (pc = "error" /\ ~resultado.ok)

(***************************************************************************)
(* Tarea4: ejecutar_mutaciones as a state machine, one individual of the   *)
(* inner loop per step; slots 1..idx of poblacion hold nueva_poblacion.    *)
(***************************************************************************)
MaxPobReal == 2    \* tamano_poblacion ranges over 1..MaxPobReal (Tarea4)
MaxGenReal == 2    \* generaciones ranges over 0..MaxGenReal (Tarea4)

probabilidad_mutacion_real == 10

\* poblacion_inicial_real(tamano_poblacion)
InitReal ==
    /\ pc = "bucle"
    /\ generaciones \in 0..MaxGenReal
    /\ tamano_poblacion \in 1..MaxPobReal
    /\ poblacion \in [1..tamano_poblacion -> individuo_aleatorio]
    /\ gen = 0
    /\ aptitudes = <<>>
    /\ historial = <<>>
    /\ idx = 0
    /\ resultado = <<>>
    /\ llamadas = 0
    /\ refs = <<>>
    /\ entrada = <<>>

\* for gen in range(1, generaciones + 1): nueva_poblacion = []
Real_Generacion ==
    /\ pc = "bucle"
    /\ gen < generaciones
    /\ gen' = gen + 1
    /\ idx' = 0
    /\ pc' = "mutar"
    /\ UNCHANGED <<poblacion, generaciones, tamano_poblacion, aptitudes, historial,
                   resultado, entrada, llamadas, refs>>

\* One iteration of `for idx, ind in enumerate(poblacion)`; after the last
\* one, poblacion = nueva_poblacion.
Real_Mutar ==
    /\ pc = "mutar"
    /\ idx < Len(poblacion)
    /\ \E mutado \in mutar_individuo_real(poblacion[idx + 1],
                                          probabilidad_mutacion_real) :
         poblacion' = [poblacion EXCEPT ![idx + 1] = mutado]
    /\ idx' = idx + 1
    /\ pc' = IF idx + 1 = Len(poblacion) THEN "bucle" ELSE "mutar"
    /\ UNCHANGED <<generaciones, tamano_poblacion, gen, aptitudes, historial,
                   resultado, entrada, llamadas, refs>>

\* The loop is exhausted; the function returns None.
Real_Return ==
    /\ pc = "bucle"
    /\ gen >= generaciones
    /\ pc' = "done"
    /\ UNCHANGED <<poblacion, generaciones, tamano_poblacion, gen, aptitudes,
                   historial, idx, resultado, entrada, llamadas, refs>>

NextReal == Real_Generacion \/ Real_Mutar \/ Real_Return

SpecReal == InitReal /\ [][NextReal]_vars

\* C9: in ejecutar_mutaciones, in every generation, every gene i of every
\* individual lies within LIMITES[i] = [min_i, max_i], whatever genes are
\* mutated and whatever the sign and magnitude of the perturbations added.
C9_GenesDentroDeLimites ==
    \A k \in 1..Len(poblacion) :
        /\ Len(poblacion[k]) = Len(LIMITES)
        /\ \A i \in 1..Len(LIMITES) :
              /\ LIMITES[i][1] <= poblacion[k][i]
              /\ poblacion[k][i] <= LIMITES[i][2]

\* After two generations an individual has a gene strictly inside its range
\* (a small perturbation was added) next to a gene on its upper limit.
C9_Witness ==
    /\ pc = "done"
    /\ gen = 2
    /\ \E k \in 1..Len(poblacion) :
          /\ poblacion[k][2] = 80
          /\ poblacion[k][1] = LIMITES[1][2]
          /\ poblacion[k][4] = LIMITES[4][1]

(***************************************************************************)
(* codificar, and the round trip through decodificar.  The two programs    *)
(* carry the same text of both functions.  Reals are exact here: the value *)
(* x is x / Rejilla, a and b are integers.                                 *)
(***************************************************************************)
MaxCota == 3       \* the limits a, b range over -MaxCota..MaxCota
MaxBits == 3       \* bits ranges over 1..MaxBits
Rejilla == 4       \* values to encode are multiples of 1/Rejilla

\* Mutant of RedondeoPar: the quotient is truncated, as int() would.
RedondeoPar_truncado(num, den) == num \div den

\* round(num / den) of Python 3 for num >= 0, den > 0: to the nearest integer,
\* a tie going to the even one.
RedondeoPar(num, den) ==
    LET q == num \div den
        r == num % den
    IN  IF 2 * r < den THEN q
        ELSE IF 2 * r > den THEN q + 1
        ELSE IF q % 2 = 0 THEN q ELSE q + 1

\* codificar(x / Rejilla, a, b, bits)
codificar(x, a, b, bits) ==
    IF a >= b THEN ValueError
    ELSE LET recortado == IF x < a * Rejilla THEN a * Rejilla
                          ELSE IF x > b * Rejilla THEN b * Rejilla
                          ELSE x
             max_int == Pow2(bits) - 1
             k0 == RedondeoPar((recortado - a * Rejilla) * max_int,
                               (b - a) * Rejilla)
             k == Max(0, Min(max_int, k0))
         IN  Devuelve([j \in 1..bits |-> (k \div Pow2(bits - j)) % 2])

InitCodec ==
    /\ pc = "codificar"
    /\ entrada \in [x : (-(MaxCota * Rejilla) - 2)..(MaxCota * Rejilla + 2),
                    a : (-MaxCota)..MaxCota,
                    b : (-MaxCota)..MaxCota,
                    bits : 1..MaxBits]
    /\ resultado = <<>>
    /\ llamadas = 0
    /\ refs = <<>>
    /\ poblacion = <<>>
    /\ generaciones = 0
    /\ tamano_poblacion = 0
    /\ gen = 0
    /\ aptitudes = <<>>
    /\ historial = <<>>
    /\ idx = 0

\* codificar raises: a >= b.
Codec_Error ==
    /\ pc = "codificar"
    /\ ~codificar(entrada.x, entrada.a, entrada.b, entrada.bits).ok
    /\ resultado' = ValueError
    /\ pc' = "error"
    /\ UNCHANGED <<poblacion, generaciones, tamano_poblacion, gen, aptitudes,
                   historial, idx, entrada, llamadas, refs>>

\* codificar returns the bit list.
Codec_Codificar ==
    /\ pc = "codificar"
    /\ codificar(entrada.x, entrada.a, entrada.b, entrada.bits).ok
    /\ resultado' = codificar(entrada.x, entrada.a, entrada.b, entrada.bits)
    /\ pc' = "decodificar"
    /\ UNCHANGED <<poblacion, generaciones, tamano_poblacion, gen, aptitudes,
                   historial, idx, entrada, llamadas, refs>>

\* decodificar(bits, a, b) of the bit list just produced; a < b holds here.
\* resultado.x is the decoded value as a numerator over 2^bits - 1.
Codec_Decodificar ==
    /\ pc = "decodificar"
    /\ resultado' = [ok |-> TRUE,
                     val |-> resultado.val,
                     x |-> decodificar(resultado.val, entrada.a, entrada.b)]
    /\ pc' = "done"
    /\ UNCHANGED <<poblacion, generaciones, tamano_poblacion, gen, aptitudes,
                   historial, idx, entrada, llamadas, refs>>

NextCodec == Codec_Error \/ Codec_Codificar \/ Codec_Decodificar

SpecCodec == InitCodec /\ [][NextCodec]_vars

BitsMantisa == 3   \* bits of the significand of the model's floats
MaxExp == 1        \* the limits a, b have exponents in -MaxExp..MaxExp

Signo(n) == IF n < 0 THEN -1 ELSE 1

\* Number of binary digits of n >= 0.
RECURSIVE BitLen(_)
BitLen(n) == IF n = 0 THEN 0 ELSE 1 + BitLen(n \div 2)

RECURSIVE Canon(_, _)
Canon(m, e) ==
    IF m = 0 THEN [m |-> 0, e |-> 0]
    ELSE IF m % 2 = 0 THEN Canon(m \div 2, e + 1)
    ELSE [m |-> m, e |-> e]

\* The float nearest to the exact value n * 2^e, ties to even.
Redondear(n, e) ==
    LET s == BitLen(Abs(n)) - BitsMantisa
    IN  IF s <= 0 THEN Canon(n, e)
        ELSE Canon(Signo(n) * RedondeoPar(Abs(n), Pow2(s)), e + s)

\* x + y, x - y, x * y and x < y on floats.
SumaFlot(x, y) ==
    LET e0 == Min(x.e, y.e)
    IN  Redondear(x.m * Pow2(x.e - e0) + y.m * Pow2(y.e - e0), e0)

RestaFlot(x, y) == SumaFlot(x, [m |-> -y.m, e |-> y.e])

MulFlot(x, y) == Redondear(x.m * y.m, x.e + y.e)

MenorFlot(x, y) ==
    LET e0 == Min(x.e, y.e)
    IN  x.m * Pow2(x.e - e0) < y.m * Pow2(y.e - e0)

\* k / n for integers 0 <= k <= n, n > 0: the correctly rounded quotient.
DivEnteros(k, n) ==
    IF k = 0 THEN Canon(0, 0)
    ELSE LET s == CHOOSE t \in 0..(BitsMantisa + BitLen(n)) :
                    /\ k * Pow2(t) >= n * Pow2(BitsMantisa - 1)
                    /\ t = 0 \/ k * Pow2(t - 1) < n * Pow2(BitsMantisa - 1)
         IN  Canon(RedondeoPar(k * Pow2(s), n), -s)

\* The floats the limits are drawn from.
Flotantes ==
    {Canon(m, e) : m \in (1 - Pow2(BitsMantisa))..(Pow2(BitsMantisa) - 1),
                   e \in (-MaxExp)..MaxExp}

\* decodificar(bits, a, b) on floats: x = a + (k / max_int) * (b - a)
decodificar_flotante(bits, a, b) ==
    IF ~MenorFlot(a, b) THEN ValueError
    ELSE LET max_int == Pow2(Len(bits)) - 1
             k == BitsAEntero(bits)
         IN  Devuelve(SumaFlot(a, MulFlot(DivEnteros(k, max_int), RestaFlot(b, a))))

\* entrada = [bits, a, b] with bits all zero or all one.
InitDeco ==
    /\ pc = "decodificar"
    /\ entrada \in [bits : UNION {{[i \in 1..w |-> 0], [i \in 1..w |-> 1]} :
                                      w \in 1..MaxBits},
                    a : Flotantes,
                    b : Flotantes]
    /\ resultado = <<>>
    /\ llamadas = 0
    /\ refs = <<>>
    /\ poblacion = <<>>
    /\ generaciones = 0
    /\ tamano_poblacion = 0
    /\ gen = 0
    /\ aptitudes = <<>>
    /\ historial = <<>>
    /\ idx = 0

\* a >= b: ValueError.
Deco_Error ==
    /\ pc = "decodificar"
    /\ ~decodificar_flotante(entrada.bits, entrada.a, entrada.b).ok
    /\ resultado' = ValueError
    /\ pc' = "error"
    /\ UNCHANGED <<poblacion, generaciones, tamano_poblacion, gen, aptitudes,
                   historial, idx, entrada, llamadas, refs>>

Deco_Devuelve ==
    /\ pc = "decodificar"
    /\ decodificar_flotante(entrada.bits, entrada.a, entrada.b).ok
    /\ resultado' = decodificar_flotante(entrada.bits, entrada.a, entrada.b)
    /\ pc' = "done"
    /\ UNCHANGED <<poblacion, generaciones, tamano_poblacion, gen, aptitudes,
                   historial, idx, entrada, llamadas, refs>>

NextDeco == Deco_Error \/ Deco_Devuelve

SpecDeco == InitDeco /\ [][NextDeco]_vars

\* C11: for every a < b and every width w >= 1, decodificar of the all-zero
\* bit sequence of length w returns exactly a, and of the all-one bit sequence
\* of length w returns exactly b.
C11_ExtremosExactos ==
    pc = "done" =>
        /\ (\A i \in 1..Len(entrada.bits) : entrada.bits[i] = 0)
               => resultado.val = entrada.a
        /\ (\A i \in 1..Len(entrada.bits) : entrada.bits[i] = 1)
               => resultado.val = entrada.b

(***************************************************************************)
(* Invocations of the objective function.                                  *)
(***************************************************************************)
\* C12: in every generation of an evolution loop (algoritmo_genetico,
\* evolucionar) the objective function is invoked exactly once per individual
\* of the current population: N invocations for a population of N.  A
\* generation has been evaluated when pc = "seleccion" (algoritmo_genetico) or
\* gen > 0 (either loop).
C12_UnaLlamadaPorIndividuo ==
    (pc = "seleccion" \/ gen > 0) => llamadas = Len(poblacion)

(***************************************************************************)
(* Tarea3: truncation selection called on its own,                         *)
(*   seleccionar_mejores(poblacion, probabilidades_seleccion(aptitudes), k) *)
(* entrada = [aptitudes, k]; poblacion holds one distinct chromosome per   *)
(* fitness value, so that a pool entry identifies the slot it came from.   *)
(***************************************************************************)
MaxPobSel == 3     \* populations of the selection calls have 0..MaxPobSel slots

\* Fitness values offered to the selection: negative, zero and positive.
ValoresAptitud == {-2, 0, 1, 3}

\* The chromosome of slot i: the binary digits of i, lowest first.
PoblacionDistinta(n) ==
    [i \in 1..n |-> [j \in 1..(Len(RANGOS) * bits_por_var) |->
                        (i \div Pow2(j - 1)) % 2]]

InitSeleccion ==
    /\ pc = "seleccionar"
    /\ tamano_poblacion \in 0..MaxPobSel
    /\ poblacion = PoblacionDistinta(tamano_poblacion)
    /\ entrada \in [aptitudes : [1..tamano_poblacion -> ValoresAptitud],
                    k : (-1)..(MaxPobSel + 1)]
    /\ resultado = <<>>
    /\ llamadas = 0
    /\ refs = <<>>
    /\ generaciones = 0
    /\ gen = 0
    /\ aptitudes = <<>>
    /\ historial = <<>>
    /\ idx = 0

\* probabilidades_seleccion or indices_mejores raises ValueError.
Sel_Error ==
    /\ pc = "seleccionar"
    /\ LET probs == probabilidades_seleccion(entrada.aptitudes)
       IN  IF ~probs.ok THEN TRUE
           ELSE ~seleccionar_mejores(poblacion, probs.val, entrada.k).ok
    /\ pc' = "seleccion_error"
    /\ resultado' = ValueError
    /\ UNCHANGED <<poblacion, generaciones, tamano_poblacion, gen, aptitudes,
                   historial, idx, entrada, llamadas, refs>>

\* The pool is returned.
Sel_Devuelve ==
    /\ pc = "seleccionar"
    /\ probabilidades_seleccion(entrada.aptitudes).ok
    /\ \E pool \in {seleccionar_mejores(poblacion,
                        probabilidades_seleccion(entrada.aptitudes).val,
                        entrada.k)} :
          /\ pool.ok
          /\ resultado' = pool
    /\ pc' = "seleccionado"
    /\ UNCHANGED <<poblacion, generaciones, tamano_poblacion, gen, aptitudes,
                   historial, idx, entrada, llamadas, refs>>

NextSeleccion == Sel_Error \/ Sel_Devuelve

SpecSeleccion == InitSeleccion /\ [][NextSeleccion]_vars

(***************************************************************************)
(* Selection errors: the selection calls above together with runs of       *)
(* evolucionar on populations of 0..MaxPobSel individuals.                 *)
(***************************************************************************)
InitEvoSel ==
    /\ pc = "bucle"
    /\ generaciones \in 0..MaxGenEvo
    /\ tamano_poblacion \in 0..MaxPobSel
    /\ poblacion \in [1..tamano_poblacion -> Cromosomas(Len(RANGOS) * bits_por_var)]
    /\ gen = 0
    /\ aptitudes = <<>>
    /\ historial = <<>>
    /\ idx = 0
    /\ resultado = <<>>
    /\ llamadas = 0
    /\ refs = [i \in 1..tamano_poblacion |-> i]
    /\ entrada = <<>>

InitSeleccionEvo == InitSeleccion \/ InitEvoSel

NextSeleccionEvo == Sel_Error \/ Sel_Devuelve \/ Evo_Error \/ Evo_Generacion \/ Evo_Return

SpecSeleccionEvo == InitSeleccionEvo /\ [][NextSeleccionEvo]_vars

\* The selection call was made with k greater than the population size, on an
\* empty population, or with a non-positive k.
SeleccionInvalida ==
    \/ entrada.k > Len(poblacion)
    \/ Len(poblacion) = 0
    \/ entrada.k <= 0

\* C13 as stated: truncation selection fails with an error, returning no pool
\* and leaving the population unmodified, whenever the requested count is
\* greater than the population size, the population is empty or the count is
\* not positive; and evolucionar on a population of fewer than 2 individuals
\* aborts with that error.
C13_Original ==
    /\ (pc \in {"seleccionado", "seleccion_error"} /\ SeleccionInvalida) =>
           /\ pc = "seleccion_error"
           /\ ~resultado.ok
           /\ poblacion = PoblacionDistinta(tamano_poblacion)
    /\ (pc \in {"done", "error"} /\ Len(poblacion) < 2) =>
           /\ pc = "error"
           /\ ~resultado.ok

\* C13, amended: the same, where evolucionar on a population of fewer than 2
\* individuals aborts with that error when at least one generation is
\* requested (with generaciones = 0 no selection is made and the population
\* is returned); a failing call never changes the population.
C13_SeleccionInvalidaFalla ==
    /\ []((pc \in {"seleccionado", "seleccion_error"} /\ SeleccionInvalida) =>
             /\ pc = "seleccion_error"
             /\ ~resultado.ok
             /\ poblacion = PoblacionDistinta(tamano_poblacion))
    /\ []((pc \in {"done", "error"} /\ Len(poblacion) < 2 /\ generaciones >= 1) =>
             /\ pc = "error"
             /\ ~resultado.ok)
    /\ []((pc = "done" /\ Len(poblacion) < 2) => generaciones = 0)
    /\ [][pc' \in {"seleccion_error", "error"} =>
             (poblacion' = poblacion /\ ~resultado'.ok)]_vars

\* A selection of 3 from a population of 2 has failed.
C13_Witness ==
    /\ pc = "seleccion_error"
    /\ tamano_poblacion = 2
    /\ entrada.k = 3
    /\ ~resultado.ok
    /\ poblacion = PoblacionDistinta(2)

(***************************************************************************)
(* Which slots a generation of evolucionar reads and writes.               *)
(***************************************************************************)
\* C14: in every generation of evolucionar in which the population has more
\* than 4 individuals and the best individual is not tied for worst, neither
\* of the two indices chosen as parents (the top 2 of the ranking) is one of
\* the two indices whose slots are overwritten (the two of lowest fitness).
C14_PadresNoReemplazados ==
    (pc = "bucle" /\ gen < generaciones /\ Len(poblacion) > 4) =>
        LET apt == evaluar_poblacion_caja(poblacion)
            padres == indices_mejores(probabilidades_seleccion(apt).val, 2).val
            peores == Peores(apt)
        IN  (\E i, j \in 1..Len(apt) : apt[i] < apt[j]) =>
                {padres[1], padres[2]} \cap {peores[1], peores[2]} = {}

\* The lowest index among those of least fitness, the indices in excl apart.
PrimerMinimo(pob, excl) ==
    CHOOSE i \in (1..Len(pob)) \ excl :
        \A j \in (1..Len(pob)) \ excl :
            TablaAptitud[pob[i]] < TablaAptitud[pob[j]]
                \/ (TablaAptitud[pob[i]] = TablaAptitud[pob[j]] /\ i <= j)

\* The lowest index among those of greatest fitness, the indices in excl apart.
PrimerMaximo(pob, excl) ==
    CHOOSE i \in (1..Len(pob)) \ excl :
        \A j \in (1..Len(pob)) \ excl :
            TablaAptitud[pob[i]] > TablaAptitud[pob[j]]
                \/ (TablaAptitud[pob[i]] = TablaAptitud[pob[j]] /\ i <= j)

\* The offspring each pair of parents can have, tabulated once from
\* HijosPosibles.
TablaHijos ==
    [par \in {x : x \in Cromosomas(Len(RANGOS) * bits_por_var)
                        \X Cromosomas(Len(RANGOS) * bits_por_var)} |->
        HijosPosibles(par[1], par[2], p_mut)]

\* C15: each generation of evolucionar on a population of N >= 2 keeps the
\* cardinality at N and overwrites only the two slots of the two individuals of
\* lowest fitness of that generation (lower index first on ties) with the two
\* offspring (of the two individuals of highest fitness), the first child in
\* the slot of the lowest; every other slot holds the same chromosome as
\* before the generation.
C15_SoloDosRanurasCambian ==
    [][(pc = "bucle" /\ gen' = gen + 1 /\ Len(poblacion) >= 2) =>
          LET p1 == PrimerMinimo(poblacion, {})
              p2 == PrimerMinimo(poblacion, {p1})
              m1 == PrimerMaximo(poblacion, {})
              m2 == PrimerMaximo(poblacion, {m1})
          IN  /\ Len(poblacion') = Len(poblacion)
              /\ \A i \in 1..Len(poblacion) :
                    i \notin {p1, p2} => poblacion'[i] = poblacion[i]
              /\ <<poblacion'[p1], poblacion'[p2]>>
                    \in TablaHijos[<<poblacion[m1], poblacion[m2]>>]]_vars

\* A generation has run on 3 individuals: the best one is still in slot 3 and
\* slots 1 and 2 hold offspring.
C15_Witness ==
    /\ pc = "bucle"
    /\ gen = 1
    /\ tamano_poblacion = 3
    /\ poblacion = << <<1, 0, 1>>, <<0, 1, 1>>, <<1, 1, 1>> >>

(***************************************************************************)
(* Truncation selection against the fitness order.                         *)
(***************************************************************************)
\* C16: for every non-empty fitness vector and every 1 <= k <= N,
\* seleccionar_mejores applied to probabilidades_seleccion(aptitudes) returns
\* the k individuals of highest fitness in descending fitness order: the pool
\* has k entries from k different slots, their fitness does not increase along
\* the pool, and no individual left out is fitter than one in the pool.
C16_TruncamientoPorAptitud ==
    pc = "seleccionado" =>
        LET apt == entrada.aptitudes
            n == Len(poblacion)
            pool == resultado.val
            ind == [r \in 1..Len(pool) |->
                       CHOOSE i \in 1..n : poblacion[i] = pool[r]]
        IN  /\ Len(pool) = entrada.k
            /\ \A r, t \in 1..Len(pool) : r < t =>
                  (ind[r] # ind[t] /\ apt[ind[r]] >= apt[ind[t]])
            /\ \A j \in 1..n :
                  (\A r \in 1..Len(pool) : ind[r] # j) =>
                      \A r \in 1..Len(pool) : apt[j] <= apt[ind[r]]

(***************************************************************************)
(* Tarea2: seleccion_torneo called on its own, the indices drawn by         *)
(* random.randint recorded with the pool.                                  *)
(***************************************************************************)
MaxPobTorneo == 3
MaxTorneo == 2

\* The fitness values handed to seleccion_torneo.
AptitudesTorneo == {0, 1, 2}

InitTorneo ==
    /\ pc = "torneo"
    /\ tamano_poblacion \in 0..MaxPobTorneo
    /\ poblacion \in [1..tamano_poblacion -> Cromosomas(2 * n_bits)]
    /\ aptitudes \in [1..tamano_poblacion -> AptitudesTorneo]
    /\ refs = [i \in 1..tamano_poblacion |-> i]
    /\ \E k \in 1..MaxTorneo :
         entrada = [poblacion |-> poblacion, aptitudes |-> aptitudes,
                    refs |-> refs, tamano_torneo |-> k]
    /\ generaciones = 0
    /\ gen = 0
    /\ historial = <<>>
    /\ idx = 0
    /\ resultado = <<>>
    /\ llamadas = 0

\* Lines 144-149: n tournaments of tamano_torneo indices, each over 0..n-1.
Torneo_Seleccion ==
    /\ pc = "torneo"
    /\ \E indices \in [1..Len(poblacion) ->
                          [1..entrada.tamano_torneo -> 1..Len(poblacion)]] :
         \E ganadores \in {[s \in 1..Len(poblacion) |->
                               TorneoGanador(indices[s], aptitudes)]} :
           resultado' = [val |-> seleccion_torneo(poblacion, ganadores),
                         refs |-> seleccion_torneo_refs(refs, ganadores),
                         indices |-> indices]
    /\ pc' = "seleccionada"
    /\ UNCHANGED <<poblacion, generaciones, tamano_poblacion, gen, aptitudes,
                   historial, idx, entrada, llamadas, refs>>

NextTorneo == Torneo_Seleccion

SpecTorneo == InitTorneo /\ [][NextTorneo]_vars

\* C17: seleccion_torneo on a population of N with tournament size k >= 1
\* returns a pool of exactly N chromosomes; every entry has the contents of the
\* member of highest fitness among the k indices drawn for it, the first drawn
\* among those of equal fitness, and is a list object of its own (neither a
\* member of the population nor another entry of the pool); the population
\* and its chromosomes are as they were before the call.
C17_TorneoCopiaAlMejor ==
    pc = "seleccionada" =>
        LET n == Len(entrada.poblacion)
            k == entrada.tamano_torneo
            apt == entrada.aptitudes
            pool == resultado.val
        IN  /\ Len(pool) = n
            /\ \A s \in 1..n :
                 \E j \in 1..k :
                    LET w == resultado.indices[s][j]
                    IN  /\ pool[s] = entrada.poblacion[w]
                        /\ \A l \in 1..k : apt[resultado.indices[s][l]] <= apt[w]
                        /\ \A l \in 1..(j - 1) : apt[resultado.indices[s][l]] < apt[w]
            /\ \A s \in 1..n : resultado.refs[s] \notin Rango(entrada.refs)
            /\ \A s, t \in 1..n : s # t => resultado.refs[s] # resultado.refs[t]
            /\ poblacion = entrada.poblacion
            /\ refs = entrada.refs

\* A pool of three where the first tournament drew two members of equal
\* fitness and different contents, the second drawn first, and the same
\* member won two tournaments.
C17_Witness ==
    /\ pc = "seleccionada"
    /\ tamano_poblacion = 3
    /\ entrada.tamano_torneo = 2
    /\ resultado.indices[1] = <<2, 1>>
    /\ aptitudes[1] = aptitudes[2]
    /\ poblacion[1] # poblacion[2]
    /\ resultado.val[1] = poblacion[2]
    /\ resultado.val[2] = poblacion[2]

(***************************************************************************)
(* Aliasing between the parents and the result of cruce_un_punto.          *)
(***************************************************************************)
\* C18: when cruce_un_punto of either program does not recombine, the two
\* chromosomes it returns have the contents of the parents, and neither is one
\* of the parents' list objects, so that changing a child in place cannot
\* change a parent.
C18_SinCruceNoComparte ==
    (pc = "done" /\ ~resultado.cruza) =>
        /\ resultado.val = <<entrada.padre1, entrada.padre2>>
        /\ \A h \in 1..2 : resultado.refs[h] \notin Rango(PadresCruce)

(***************************************************************************)
(* Exclusive ownership of the chromosomes of a population.                 *)
(***************************************************************************)
SinAlias(r) == \A i, j \in DOMAIN r : i # j => r[i] # r[j]

====
